---- MODULE Spec2Model ----
(***************************************************************************)
(* The OpenRouter pipe of src/src/open_router_function.py as a state       *)
(* machine: one call of Pipe.pipe, the coroutine of                         *)
(* Pipe._handle_normal_request it returns on the non-streaming path, and    *)
(* the async generator of Pipe._handle_streaming_request it returns on the  *)
(* streaming path, driven by a consumer that pulls one chunk at a time.     *)
(*                                                                          *)
(* Strings the code only compares for truthiness are TLA+ strings; a        *)
(* missing key and a JSON null (both read through dict.get as None) are     *)
(* the value Absent.  A model id is a sequence of tokens, "." and           *)
(* "reasoning/" being tokens of their own.  An upstream line is a record:   *)
(* whether it starts with "data: ", whether its payload is valid JSON, and  *)
(* the parsed payload.  The `created` timestamp of a chunk (time.time())    *)
(* is left out of the chunk record.                                         *)
(***************************************************************************)
EXTENDS Integers, Sequences, FiniteSets, TLC

\* Bounds of the model.
MaxLines == 3     \* lines an unscripted upstream body may hold
MaxChoices == 2   \* entries of a non-streaming document's choice list
MaxIdLen == 3     \* tokens of a model id given to the normaliser
MaxModels == 2    \* entries of the model listing the upstream returns

(***************************************************************************)
(* Values                                                                   *)
(***************************************************************************)
Absent == "<absent>"

\* Truthy with a fault: only None is falsy (a test `is not None`).
Truthy_NotNone(v) == v # Absent

\* Python truthiness of a value read with dict.get: None and "" are falsy.
Truthy(v) == v \notin {Absent, ""}

\* ---- request bodies ----
ModelField == { [kind |-> "absent", val |-> <<>>],
                [kind |-> "str",    val |-> <<"p", ".", "reasoning/", "m">>] }

Requests == [model : ModelField, stream : {"absent", "false", "true"},
             include_reasoning : {"absent"}, messages : {"hello"}]

NoBody == [model |-> [kind |-> "absent", val |-> <<>>], stream |-> "absent",
           include_reasoning |-> "absent", messages |-> "absent"]

\* The request bodies the normaliser is examined on: every model id of at
\* most MaxIdLen tokens, or none, and every value of the other fields.
IdTokens == {"m", ".", "reasoning/"}
ModelIds == UNION { [1..n -> IdTokens] : n \in 0..MaxIdLen }
NormRequests ==
  [model : {[kind |-> "absent", val |-> <<>>]}
           \cup {[kind |-> "str", val |-> v] : v \in ModelIds},
   stream : {"absent", "false", "true"},
   include_reasoning : {"absent", "false", "true"},
   messages : {"hello"}]

\* ---- upstream stream events and lines ----
Reasonings == {Absent, "", "a"}
Contents == {Absent, "", "c"}
Finishes == {Absent, "stop"}

NoData == [choices |-> "absent", id |-> Absent, reasoning |-> Absent,
           content |-> Absent, finish |-> Absent]

EmptyChoices == [NoData EXCEPT !.choices = "empty", !.id = "gen-1"]

Events == [choices : {"present"}, id : {"gen-1"}, reasoning : Reasonings,
           content : Contents, finish : Finishes]
          \cup {NoData, EmptyChoices}

DataLine(e) == [data |-> TRUE, json |-> "ok", ev |-> e]
OtherLine == [data |-> FALSE, json |-> "invalid", ev |-> NoData]
BadJsonLine == [data |-> TRUE, json |-> "invalid", ev |-> NoData]

Lines == {DataLine(e) : e \in Events} \cup {OtherLine, BadJsonLine}

Delta(r, c, f) == [choices |-> "present", id |-> "gen-1", reasoning |-> r,
                   content |-> c, finish |-> f]

\* The scenario of the specification's section 8: reasoning a, reasoning b,
\* content c, content d, then an event with finish_reason "stop".
Scenario == << DataLine(Delta("a", Absent, Absent)),
               DataLine(Delta("b", Absent, Absent)),
               DataLine(Delta(Absent, "c", Absent)),
               DataLine(Delta(Absent, "d", Absent)),
               DataLine(Delta(Absent, Absent, "stop")) >>

\* What the upstream does on the streaming path: whether it can be reached
\* and the HTTP status it answers with, and the body it sends: either
\* unscripted (any line of Lines, at most MaxLines of them, then the end of
\* the body or a network failure) or the scenario.
Upstreams == [status : {"ok", "error", "unreachable"}, scripted : {FALSE}, lines : {<<>>}]
             \cup {[status |-> "ok", scripted |-> TRUE, lines |-> Scenario]}

\* ---- non-streaming documents ----
NoMessage == [hasMessage |-> FALSE, reasoning |-> Absent, content |-> Absent]
\* A key whose value is JSON null, where the code tells it from a missing key.
Null == "<null>"

Choices == [hasMessage : {TRUE}, reasoning : {Absent, Null, "R"},
            content : {Absent, "C"}]
           \cup {NoMessage}

ChoiceLists == UNION { [1..n -> Choices] : n \in 0..MaxChoices }

Docs == [hasChoices : {TRUE}, choices : ChoiceLists]
        \cup { [hasChoices |-> FALSE, choices |-> <<>>] }

NoDoc == [hasChoices |-> FALSE, choices |-> <<>>]

NoResponse == [kind |-> "none", doc |-> NoDoc]

VARIABLES
  body,            \* the caller's request mapping
  modified_body,   \* pipe's copy, normalised
  ret,             \* what the call of pipe gave the caller
  exc,             \* the exception the caller or consumer observed
  npc,             \* the coroutine of _handle_normal_request
  doc,             \* the document that coroutine returned
  upstream,        \* the body the upstream will send on the streaming path
  pc,              \* position of the generator of _handle_streaming_request
  thinking_state,  \* -1: not started, 0: thinking, 1: answered
  data,            \* the most recently parsed event
  lines,           \* the lines response.aiter_lines() has delivered
  out,             \* the chunks yielded so far, each with its yield site
  consumer,        \* what the consumer of the generator is doing
  clientOpen,      \* the httpx.AsyncClient is open
  respOpen,        \* the streamed response (the connection) is open
  response,        \* the upstream's answer to the non-streaming request
  pulls,           \* the __anext__ calls the consumer has made
  valves,          \* the configuration (Valves)
  models_response, \* the upstream's answer to GET /models
  lpc,             \* the call of pipes()
  listing          \* what pipes() returned

vars == << body, modified_body, ret, exc, npc, doc, upstream, pc,
           thinking_state, data, lines, out, consumer, clientOpen, respOpen,
           response, pulls, valves, models_response, lpc, listing >>

\* The number of lines read.
nread == Len(lines)

pipeVars == << body, modified_body, ret >>
normalVars == << npc, doc, response >>
listVars == << valves, models_response, lpc, listing >>
streamVars == << pc, thinking_state, data, lines, out, consumer,
                 clientOpen, respOpen >>

(***************************************************************************)
(* Pipe.pipe: the request normaliser and the dispatch                       *)
(***************************************************************************)
\* Index of the first occurrence of token t in s, 0 when there is none.
FirstIndex(s, t) ==
  IF \E i \in 1..Len(s) : s[i] = t
  THEN CHOOSE i \in 1..Len(s) : s[i] = t /\ \A j \in 1..(i - 1) : s[j] # t
  ELSE 0

\* model.split(".", 1)[-1]
SplitTail(s) ==
  IF FirstIndex(s, ".") = 0 THEN s
  ELSE SubSeq(s, FirstIndex(s, ".") + 1, Len(s))

\* value.replace("reasoning/", "", 1)
ReplaceFirst(s) ==
  IF FirstIndex(s, "reasoning/") = 0 THEN s
  ELSE SubSeq(s, 1, FirstIndex(s, "reasoning/") - 1)
       \o SubSeq(s, FirstIndex(s, "reasoning/") + 1, Len(s))

NormalizeModel(s) == ReplaceFirst(SplitTail(s))

\* modified_body = {**body}; the model rewrite; include_reasoning = True.
Normalize(b) ==
  [b EXCEPT !.model = IF @.kind = "str"
                      THEN [kind |-> "str", val |-> NormalizeModel(@.val)]
                      ELSE @,
            !.include_reasoning = "true"]

\* The caller's mapping after the call, with a fault: modified_body is the
\* caller's mapping itself, not a copy.
CallerBodyAfter_Aliased(b) == Normalize(b)

\* The caller's mapping after the call: {**body} is a new mapping, and the
\* assignments of lines 136-140 go to it.
CallerBodyAfter(b) == b

\* The try block: body.get("stream", False) picks the handler, and calling
\* the handler only creates the generator or the coroutine object: nothing
\* of the handler's body runs here, so nothing is raised here.
TryBlock(b) ==
  [raised |-> FALSE,
   value  |-> IF b.stream = "true" THEN "agen" ELSE "coroutine"]

\* except Exception: return json.dumps({"error": ...})
PipeReturn(b) ==
  IF TryBlock(b).raised THEN "error_json" ELSE TryBlock(b).value

\* The call pipe(b), b being the caller's mapping.
PipeCall(b) ==
  /\ ret = "none"
  /\ body' = CallerBodyAfter(b)
  /\ modified_body' = Normalize(b)
  /\ ret' = PipeReturn(b)
  /\ exc' = exc
  /\ npc' = IF PipeReturn(b) = "coroutine" THEN "pending" ELSE npc
  /\ pc' = IF PipeReturn(b) = "agen" THEN "created" ELSE pc
  /\ consumer' = IF PipeReturn(b) = "agen" THEN "idle" ELSE consumer
  /\ UNCHANGED << doc, upstream, thinking_state, data, lines, out,
                  clientOpen, respOpen, response, pulls, listVars >>

(***************************************************************************)
(* Pipe._handle_normal_request                                              *)
(***************************************************************************)
NormalResponses ==
  { [kind |-> k, doc |-> NoDoc] :
      k \in {"transport_error", "status_error", "invalid_json"} }
  \cup { [kind |-> "doc", doc |-> d] : d \in Docs }

\* "message" in choice and "reasoning" in choice["message"]
HasReasoning(c) == c.hasMessage /\ c.reasoning # Absent

\* A value as an f-string formats it: str(None) is "None".
Fmt(v) == IF v = Null THEN "None" ELSE v

\* ReshapeChoice with a fault: the line break after </think> is missing.
ReshapeChoice_NoLineBreak(c) ==
  IF HasReasoning(c)
  THEN [c EXCEPT !.content = "<think>" \o Fmt(c.reasoning) \o "</think>" \o Fmt(c.content)]
  ELSE c

\* choice["message"]["content"] = f"<think>{reasoning}</think>\n{content}"
ReshapeChoice(c) ==
  IF HasReasoning(c)
  THEN [c EXCEPT !.content = "<think>" \o Fmt(c.reasoning) \o "</think>\n" \o Fmt(c.content)]
  ELSE c

Reshape(d) ==
  IF d.hasChoices
  THEN [d EXCEPT !.choices = [i \in 1..Len(d.choices) |-> ReshapeChoice(d.choices[i])]]
  ELSE d

\* choice['message']['content'] of a message that has no content key
ReshapeRaises(d) ==
  /\ d.hasChoices
  /\ \E i \in 1..Len(d.choices) :
       HasReasoning(d.choices[i]) /\ d.choices[i].content = Absent

\* The exception the coroutine ends with, "none" when it returns.
NormalFailure(r) ==
  CASE r.kind = "transport_error" -> "ConnectError"
    [] r.kind = "status_error"    -> "HTTPStatusError"
    [] r.kind = "invalid_json"    -> "JSONDecodeError"
    [] OTHER -> IF ReshapeRaises(r.doc) THEN "KeyError" ELSE "none"

\* The caller awaits the coroutine pipe returned.
HandleNormalRequest(r) ==
  /\ ret = "coroutine"
  /\ npc = "pending"
  /\ exc' = NormalFailure(r)
  /\ npc' = IF NormalFailure(r) = "none" THEN "returned" ELSE "raised"
  /\ doc' = IF NormalFailure(r) = "none" THEN Reshape(r.doc) ELSE doc
  /\ clientOpen' = FALSE
  /\ response' = r
  /\ UNCHANGED << pipeVars, upstream, pc, thinking_state, data, lines, out,
                  consumer, respOpen, pulls, listVars >>

(***************************************************************************)
(* Pipe._handle_streaming_request: the generator                            *)
(***************************************************************************)
YieldSites == {"y_open", "y_close", "y_content", "y_done"}

\* Transition with a fault: the opening branch does not require the phase to be -1.
Transition_NoStateCheck(ts, d) ==
  IF ts <= 0 /\ Truthy(d.reasoning) THEN "open"
  ELSE IF ts = 0 /\ ~Truthy(d.reasoning) /\ Truthy(d.content) THEN "close"
  ELSE "none"

\* Transition with a fault: the closing branch does not require the reasoning to be absent.
Transition_CloseOnContent(ts, d) ==
  IF ts = -1 /\ Truthy(d.reasoning) THEN "open"
  ELSE IF ts = 0 /\ Truthy(d.content) THEN "close"
  ELSE "none"

\* The branch taken at the state transitions of lines 245-255.
Transition(ts, d) ==
  IF ts = -1 /\ Truthy(d.reasoning) THEN "open"
  ELSE IF ts = 0 /\ ~Truthy(d.reasoning) /\ Truthy(d.content) THEN "close"
  ELSE "none"

\* NextThinkingState with a fault: a reasoning fragment that arrives after the
\* answer began reopens the reasoning phase.
NextThinkingState_Reopen(ts, d) ==
  CASE Transition(ts, d) = "open"  -> 0
    [] Transition(ts, d) = "close" -> 1
    [] ts = 1 /\ Truthy(d.reasoning) -> 0
    [] OTHER -> ts

\* thinking_state after the state transitions (lines 245-255).
NextThinkingState(ts, d) ==
  CASE Transition(ts, d) = "open"  -> 0
    [] Transition(ts, d) = "close" -> 1
    [] OTHER -> ts

\* ContentOf with a fault: the answer fragment is preferred to the reasoning.
ContentOf_AnswerFirst(d) ==
  IF Truthy(d.content) THEN d.content
  ELSE IF d.reasoning = Absent THEN "" ELSE d.reasoning

\* content = delta.get("reasoning") or delta.get("content", "")
ContentOf(d) ==
  IF Truthy(d.reasoning) THEN d.reasoning
  ELSE IF d.content = Absent THEN "" ELSE d.content

\* AtFinish with a fault: the presence of the finish_reason key, whatever
\* its value, ends the stream.
AtFinish_KeyPresent(d) == IF d.choices = "present" THEN "y_done" ELSE "await_line"

\* Where control goes from `if choice.get("finish_reason")` (line 262).
AtFinish(d) == IF Truthy(d.finish) THEN "y_done" ELSE "await_line"

\* Where control goes from `if content` (line 259).
AtContent(d) == IF Truthy(ContentOf(d)) THEN "y_content" ELSE AtFinish(d)

\* AtTransition with a fault: the opening marker is not yielded.
AtTransition_NoOpen(ts, d) ==
  CASE Transition(ts, d) = "close" -> "y_close"
    [] OTHER -> AtContent(d)

\* Where control goes from the state transitions (line 245).
AtTransition(ts, d) ==
  CASE Transition(ts, d) = "open"  -> "y_open"
    [] Transition(ts, d) = "close" -> "y_close"
    [] OTHER -> AtContent(d)

\* AfterYield with a fault: no return after the yield of [DONE], the loop
\* goes on to the next line.
AfterYield_NoReturn(p, d) ==
  CASE p \in {"y_open", "y_close"} -> AtContent(d)
    [] p = "y_content" -> AtFinish(d)
    [] OTHER -> "await_line"

\* Where control goes when the generator is resumed at yield site p.
AfterYield(p, d) ==
  CASE p \in {"y_open", "y_close"} -> AtContent(d)
    [] p = "y_content" -> AtFinish(d)
    [] OTHER -> "returned"

\* construct_chunk(content): the id of the event parsed last, the request's
\* model or "unknown", and the content.
ConstructChunk(content, d, b) ==
  [frame   |-> "chunk",
   id      |-> IF d.id = Absent THEN "" ELSE d.id,
   model   |-> IF b.model.kind = "absent" THEN <<"unknown">> ELSE b.model.val,
   content |-> content]

\* The literal "data: [DONE]\n\n".
DoneLine == [frame |-> "done", id |-> "", model |-> <<>>, content |-> ""]

OpenMarker == "<think>"
CloseMarker == "</think>\n\n"

\* What the yield at site p hands to the consumer.
Yielded(p, d, b) ==
  CASE p = "y_open"    -> ConstructChunk(OpenMarker, d, b)
    [] p = "y_close"   -> ConstructChunk(CloseMarker, d, b)
    [] p = "y_content" -> ConstructChunk(ContentOf(d), d, b)
    [] OTHER           -> DoneLine

\* AExit with a fault: the resource is not scoped and stays as it was.
AExit_Leak(open) == open

\* An open-flag after the `async with` that owns it is left (__aexit__).
AExit(open) == FALSE

\* MoveTo with a fault: a new chunk is delivered ahead of the earlier ones.
MoveTo_Prepend(t, d, n) ==
  /\ pc' = t
  /\ out' = IF t \in YieldSites
            THEN <<[site |-> t, ev |-> n, text |-> Yielded(t, d, modified_body)]>> \o out
            ELSE out
  /\ consumer' = CASE t \in YieldSites -> "idle"
                   [] t = "returned"   -> "ended"
                   [] OTHER            -> "awaiting"
  /\ clientOpen' = IF t = "returned" THEN AExit(clientOpen) ELSE clientOpen
  /\ respOpen' = IF t = "returned" THEN AExit(respOpen) ELSE respOpen

\* MoveTo with a fault: a content chunk is handed over without suspending, the
\* generator goes on to read the next line while the consumer has not asked.
MoveTo_Eager(t, d, n) ==
  /\ pc' = IF t = "y_content" /\ AtFinish(d) = "await_line" THEN "await_line" ELSE t
  /\ out' = IF t \in YieldSites
            THEN Append(out, [site |-> t, ev |-> n, text |-> Yielded(t, d, modified_body)])
            ELSE out
  /\ consumer' = CASE t = "y_content" /\ AtFinish(d) = "await_line" -> "awaiting"
                   [] t \in YieldSites -> "idle"
                   [] t = "returned"   -> "ended"
                   [] OTHER            -> "awaiting"
  /\ clientOpen' = IF t = "returned" THEN AExit(clientOpen) ELSE clientOpen
  /\ respOpen' = IF t = "returned" THEN AExit(respOpen) ELSE respOpen

\* The generator moves to position t while line n is the one being processed:
\* at a yield site the chunk goes out and the consumer has it; at the read of
\* the next line the consumer keeps waiting; a return ends the sequence and
\* leaves both `async with` blocks.
MoveTo(t, d, n) ==
  /\ pc' = t
  /\ out' = IF t \in YieldSites
            THEN Append(out, [site |-> t, ev |-> n, text |-> Yielded(t, d, modified_body)])
            ELSE out
  /\ consumer' = CASE t \in YieldSites -> "idle"
                   [] t = "returned"   -> "ended"
                   [] OTHER            -> "awaiting"
  /\ clientOpen' = IF t = "returned" THEN AExit(clientOpen) ELSE clientOpen
  /\ respOpen' = IF t = "returned" THEN AExit(respOpen) ELSE respOpen

\* An exception leaves the generator through both `async with` blocks.
Raise(e) ==
  /\ pc' = "raised"
  /\ exc' = e
  /\ consumer' = "ended"
  /\ clientOpen' = AExit(clientOpen)
  /\ respOpen' = AExit(respOpen)

\* RaiseForStatus with a fault: the status is not checked.
RaiseForStatus_Never(status) == "none"

\* response.raise_for_status() (line 231): the exception it raises, "none"
\* for a success status.
RaiseForStatus(status) == IF status = "error" THEN "HTTPStatusError" ELSE "none"

\* The first __anext__: the client and the stream are opened and the status
\* is checked (lines 223-235).  An upstream that cannot be reached fails the
\* entry of client.stream(), inside the client's `async with` only.
Start ==
  /\ pc = "created"
  /\ consumer = "idle"
  /\ IF upstream.status = "unreachable"
     THEN /\ pc' = "raised"
          /\ exc' = "ConnectError"
          /\ consumer' = "ended"
          /\ clientOpen' = AExit(TRUE)
          /\ respOpen' = FALSE
          /\ thinking_state' = thinking_state
     ELSE IF RaiseForStatus(upstream.status) # "none"
     THEN /\ pc' = "raised"
          /\ exc' = RaiseForStatus(upstream.status)
          /\ consumer' = "ended"
          /\ clientOpen' = AExit(TRUE)
          /\ respOpen' = AExit(TRUE)
          /\ thinking_state' = thinking_state
     ELSE /\ thinking_state' = -1
          /\ pc' = "await_line"
          /\ consumer' = "awaiting"
          /\ clientOpen' = TRUE
          /\ respOpen' = TRUE
          /\ exc' = exc
  /\ pulls' = pulls + 1
  /\ UNCHANGED << pipeVars, normalVars, upstream, data, lines, out, listVars >>

\* What response.aiter_lines() can deliver next.
EndOfBody == [kind |-> "eof", line |-> OtherLine]
NetworkFailure == [kind |-> "fail", line |-> OtherLine]
NextInputs(u, n) ==
  IF u.scripted
  THEN IF n < Len(u.lines) THEN {[kind |-> "line", line |-> u.lines[n + 1]]}
       ELSE {EndOfBody}
  ELSE {EndOfBody, NetworkFailure}
       \cup (IF n < MaxLines THEN {[kind |-> "line", line |-> l] : l \in Lines} ELSE {})

\* IsDataLine with a fault: every line is taken for a data-event line.
IsDataLine_Any(l) == TRUE

\* line.startswith("data: ") (line 237).
IsDataLine(l) == l.data

\* LineFailure with a fault: a payload that is no JSON is taken for an empty
\* event instead of raising.
LineFailure_Swallow(l) ==
  IF l.data /\ l.json = "ok" /\ l.ev.choices = "empty" THEN "IndexError" ELSE "none"

\* The exception processing line l ends with before any yield, "none" when
\* there is none: json.loads (line 240), [0] of an empty list (line 241).
LineFailure(l) ==
  IF ~IsDataLine(l) THEN "none"
  ELSE IF l.json # "ok" THEN "JSONDecodeError"
  ELSE IF l.ev.choices = "empty" THEN "IndexError"
  ELSE "none"

\* One turn of `async for line in response.aiter_lines()` (lines 236-264),
\* up to the first yield of the line, the next read, or the end.
ReadLine(i) ==
  /\ pc = "await_line"
  /\ consumer = "awaiting"
  /\ i \in NextInputs(upstream, nread)
  /\ CASE i.kind = "eof" ->
            /\ MoveTo("returned", data, nread)
            /\ UNCHANGED << exc, thinking_state, data, lines >>
       [] i.kind = "fail" ->
            /\ Raise("ReadError")
            /\ UNCHANGED << thinking_state, data, lines, out >>
       [] OTHER ->
            /\ lines' = Append(lines, i.line)
            /\ IF LineFailure(i.line) # "none"
               THEN /\ Raise(LineFailure(i.line))
                    /\ data' = IF i.line.json = "ok" THEN i.line.ev ELSE data
                    /\ UNCHANGED << thinking_state, out >>
               ELSE IF ~IsDataLine(i.line)
               THEN UNCHANGED << exc, pc, thinking_state, data, out, consumer,
                                 clientOpen, respOpen >>
               ELSE /\ data' = i.line.ev
                    /\ thinking_state' = NextThinkingState(thinking_state, i.line.ev)
                    /\ MoveTo(AtTransition(thinking_state, i.line.ev), i.line.ev, nread + 1)
                    /\ exc' = exc
  /\ UNCHANGED << pipeVars, normalVars, upstream, pulls, listVars >>

\* The consumer asks for the next chunk of a generator suspended at a yield.
Resume ==
  /\ consumer = "idle"
  /\ pc \in YieldSites
  /\ MoveTo(AfterYield(pc, data), data, nread)
  /\ pulls' = pulls + 1
  /\ UNCHANGED << pipeVars, normalVars, upstream, exc, thinking_state, data,
                  lines, listVars >>

\* The consumer stops pulling and drops the generator.
Abandon ==
  /\ consumer = "idle"
  /\ pc \in YieldSites \cup {"created"}
  /\ consumer' = "gone"
  /\ UNCHANGED << pipeVars, normalVars, upstream, exc, pc, thinking_state,
                  data, lines, out, clientOpen, respOpen, pulls, listVars >>

\* aclose() of the dropped generator (the event loop's finalizer hook):
\* GeneratorExit is raised at the yield and leaves both `async with` blocks;
\* a generator that never started holds nothing.
Finalize ==
  /\ consumer = "gone"
  /\ pc \in YieldSites \cup {"created"}
  /\ pc' = "closed"
  /\ clientOpen' = IF pc = "created" THEN clientOpen ELSE AExit(clientOpen)
  /\ respOpen' = IF pc = "created" THEN respOpen ELSE AExit(respOpen)
  /\ UNCHANGED << pipeVars, normalVars, upstream, exc, thinking_state, data,
                  lines, out, consumer, pulls, listVars >>

\* The consumer's task is cancelled while the generator waits for a line:
\* CancelledError is raised at the await and leaves both `async with` blocks.
Cancel ==
  /\ pc = "await_line"
  /\ consumer = "awaiting"
  /\ pc' = "raised"
  /\ exc' = "CancelledError"
  /\ consumer' = "gone"
  /\ clientOpen' = AExit(clientOpen)
  /\ respOpen' = AExit(respOpen)
  /\ UNCHANGED << pipeVars, normalVars, upstream, thinking_state, data, lines,
                  out, pulls, listVars >>

(***************************************************************************)
(* Pipe.pipes: the model listing                                            *)
(***************************************************************************)
\* Valves(): FREE_ONLY is False unless configured.
DefaultValves == [FREE_ONLY |-> FALSE]

\* ---- the answers of GET /models ----
ListIds == { [kind |-> "absent", val |-> <<>>],
             [kind |-> "null",   val |-> <<>>],
             [kind |-> "str",    val |-> <<"a">>],
             [kind |-> "str",    val |-> <<"a", "Free">>] }

\* An entry of "data": a mapping with an optional id and name, or something
\* that is no mapping.
NotAMapping == [kind |-> "other", id |-> [kind |-> "absent", val |-> <<>>],
                name |-> Absent]
ListEntries == [kind : {"dict"}, id : ListIds, name : {Absent, "N"}]
               \cup {NotAMapping}

EntryLists == UNION { [1..n -> ListEntries] : n \in 0..MaxModels }

NoListResponse == [kind |-> "none", hasData |-> FALSE, data |-> <<>>]

ListResponses ==
  { [kind |-> k, hasData |-> FALSE, data |-> <<>>] :
      k \in {"connection_error", "status_error", "invalid_json", "not_a_dict", "doc"} }
  \cup { [kind |-> "doc", hasData |-> TRUE, data |-> l] : l \in EntryLists }

\* str.lower() of one token of an id.
Lower(t) == IF t \in {"Free", "FREE"} THEN "free" ELSE t

\* "free" in model.get("id", "").lower(), for an id that is a string or
\* missing.
ContainsFree(id) ==
  id.kind = "str" /\ \E i \in 1..Len(id.val) : Lower(id.val[i]) = "free"

\* The entries FREE_ONLY keeps (all of them when it is off).
Retained(l, v) ==
  IF v.FREE_ONLY THEN SelectSeq(l, LAMBDA e : ContainsFree(e.id)) ELSE l

\* {"id": model.get("id", "unknown"), "name": model.get("name", "Unknown Model")}
ListEntry(e) ==
  [id   |-> IF e.id.kind = "absent" THEN [kind |-> "str", val |-> <<"unknown">>]
            ELSE e.id,
   name |-> IF e.name = Absent THEN "Unknown Model" ELSE e.name]

\* The exception the try block of pipes ends with, "none" when it returns:
\* requests.get, _handle_response (status, JSON), .get("data") of a body
\* that is no mapping, .get of an entry that is no mapping, .lower() of a
\* null id under FREE_ONLY.
ListFailure(r, v) ==
  CASE r.kind = "connection_error" -> "ConnectionError"
    [] r.kind = "status_error"     -> "HTTPError"
    [] r.kind = "invalid_json"     -> "JSONDecodeError"
    [] r.kind = "not_a_dict"       -> "AttributeError"
    [] OTHER ->
         IF \E i \in 1..Len(r.data) : r.data[i].kind = "other"
         THEN "AttributeError"
         ELSE IF v.FREE_ONLY /\ \E i \in 1..Len(r.data) : r.data[i].id.kind = "null"
         THEN "AttributeError"
         ELSE "none"

\* PipesCatches with a fault: only the failures of the HTTP exchange are
\* caught (except requests.RequestException).
PipesCatches_RequestOnly(e) == e \in {"ConnectionError", "HTTPError"}

\* except Exception (line 116): every failure of the try block is caught.
PipesCatches(e) == TRUE

\* [{"id": "openrouter", "name": str(exc)}]
Fallback(e) == << [id |-> [kind |-> "str", val |-> <<"openrouter">>], name |-> e] >>

\* The call pipes(), the upstream answering r.
PipesCall(r) ==
  /\ lpc = "none"
  /\ models_response' = r
  /\ IF ListFailure(r, valves) = "none"
     THEN /\ listing' = [i \in 1..Len(Retained(r.data, valves)) |->
                           ListEntry(Retained(r.data, valves)[i])]
          /\ lpc' = "returned"
          /\ exc' = exc
     ELSE IF PipesCatches(ListFailure(r, valves))
     THEN /\ listing' = Fallback(ListFailure(r, valves))
          /\ lpc' = "returned"
          /\ exc' = exc
     ELSE /\ listing' = listing
          /\ lpc' = "raised"
          /\ exc' = ListFailure(r, valves)
  /\ UNCHANGED << pipeVars, npc, doc, response, upstream, streamVars, pulls, valves >>

(***************************************************************************)
(* The specification                                                        *)
(***************************************************************************)
Init ==
  /\ body \in Requests
  /\ modified_body = NoBody
  /\ ret = "none"
  /\ exc = "none"
  /\ npc = "none"
  /\ doc = NoDoc
  /\ upstream \in Upstreams
  /\ pc = "none"
  /\ thinking_state = -1
  /\ data = NoData
  /\ lines = <<>>
  /\ out = <<>>
  /\ consumer = "none"
  /\ clientOpen = FALSE
  /\ respOpen = FALSE
  /\ response = NoResponse
  /\ pulls = 0
  /\ valves = DefaultValves
  /\ models_response = NoListResponse
  /\ lpc = "none"
  /\ listing = <<>>

AllInputs == {EndOfBody, NetworkFailure}
             \cup {[kind |-> "line", line |-> l] : l \in Lines \cup {Scenario[k] : k \in 1..Len(Scenario)}}

Next ==
  \/ PipeCall(body)
  \/ \E r \in NormalResponses : HandleNormalRequest(r)
  \/ Start
  \/ \E i \in AllInputs : ReadLine(i)
  \/ Resume
  \/ Abandon
  \/ Finalize
  \/ Cancel

Spec == Init /\ [][Next]_vars

\* The normaliser alone, on every request body of NormRequests.
InitNorm ==
  /\ body \in NormRequests
  /\ modified_body = NoBody
  /\ ret = "none"
  /\ exc = "none"
  /\ npc = "none"
  /\ doc = NoDoc
  /\ upstream = [status |-> "ok", scripted |-> FALSE, lines |-> <<>>]
  /\ pc = "none"
  /\ thinking_state = -1
  /\ data = NoData
  /\ lines = <<>>
  /\ out = <<>>
  /\ consumer = "none"
  /\ clientOpen = FALSE
  /\ respOpen = FALSE
  /\ response = NoResponse
  /\ pulls = 0
  /\ valves = DefaultValves
  /\ models_response = NoListResponse
  /\ lpc = "none"
  /\ listing = <<>>

NextNorm == PipeCall(body)

SpecNorm == InitNorm /\ [][NextNorm]_vars

\* The model listing alone, with FREE_ONLY configured either way.
InitPipes ==
  /\ body = NoBody
  /\ modified_body = NoBody
  /\ ret = "none"
  /\ exc = "none"
  /\ npc = "none"
  /\ doc = NoDoc
  /\ upstream = [status |-> "ok", scripted |-> FALSE, lines |-> <<>>]
  /\ pc = "none"
  /\ thinking_state = -1
  /\ data = NoData
  /\ lines = <<>>
  /\ out = <<>>
  /\ consumer = "none"
  /\ clientOpen = FALSE
  /\ respOpen = FALSE
  /\ response = NoResponse
  /\ pulls = 0
  /\ valves \in [FREE_ONLY : BOOLEAN]
  /\ models_response = NoListResponse
  /\ lpc = "none"
  /\ listing = <<>>

NextPipes == \E r \in ListResponses : PipesCall(r)

SpecPipes == InitPipes /\ [][NextPipes]_vars

(***************************************************************************)
(* Properties                                                               *)
(***************************************************************************)
\* A fragment that is there and not empty (a value's own content, apart
\* from how the code tests it).
NonEmpty(v) == v # Absent /\ v # ""

\* Line k was parsed into an event with a first choice to read.
ParsedOk(k) ==
  lines[k].data /\ lines[k].json = "ok" /\ lines[k].ev.choices # "empty"

\* Positions of the chunks yielded at site s.
Sites(s) == {i \in 1..Len(out) : out[i].site = s}

\* The text of a chunk as the consumer reads it.
WireText(c) == IF c.frame = "done" THEN "data: [DONE]" ELSE c.content

\* ---- C1 ----
\* A failure on the non-streaming path or at the start of the stream.
FailedOnPipePath ==
  \/ npc = "raised"
  \/ pc = "raised" /\ exc \in {"ConnectError", "HTTPStatusError"}

\* C1: every failure raised while performing the upstream call or reshaping
\* the response, on the non-streaming path and at
\* the start of the stream, is caught by pipe: the caller receives the JSON
\* string {"error": ...} and observes no exception.
C1_FailuresBecomeErrorString ==
  FailedOnPipePath => (ret = "error_json" /\ exc = "none")

\* C1, the non-streaming path alone: the coroutine pipe returned never ends
\* with an exception.
C1_NormalPathNeverRaises == npc # "raised"

\* ---- C2 ----
Rank(c) ==
  CASE c.frame = "done" -> 3
    [] c.content \in {OpenMarker, CloseMarker} -> 1
    [] OTHER -> 2

ScenarioOutput ==
  << "<think>", "a", "b", "</think>\n\n", "c", "d", "data: [DONE]" >>

\* C2: chunks come out in the order of the events that triggered them, a
\* marker chunk before the content chunk of the same event (and [DONE] after
\* both); the scenario yields exactly <think>, a, b, </think>\n\n, c, d,
\* data: [DONE] and then ends.
C2_ChunksInEventOrder ==
  /\ \A i, j \in 1..Len(out) :
       i < j => \/ out[i].ev < out[j].ev
                \/ out[i].ev = out[j].ev /\ Rank(out[i].text) < Rank(out[j].text)
  /\ upstream.scripted =>
       /\ Len(out) <= Len(ScenarioOutput)
       /\ \A k \in 1..Len(out) : WireText(out[k].text) = ScenarioOutput[k]
       /\ pc = "returned" => Len(out) = Len(ScenarioOutput)

C2_Witness ==
  /\ upstream.scripted
  /\ pc = "returned"
  /\ [k \in 1..Len(out) |-> WireText(out[k].text)] = ScenarioOutput

\* ---- C3 ----
\* Line k is the first event that carries a non-empty reasoning fragment.
FirstReasoning(k) ==
  /\ ParsedOk(k)
  /\ NonEmpty(lines[k].ev.reasoning)
  /\ \A j \in 1..(k - 1) : ~NonEmpty(lines[j].ev.reasoning)

\* C3: the first event with a non-empty reasoning fragment moves the phase
\* from NOT_STARTED to REASONING and emits one <think> chunk immediately
\* before its reasoning chunk; <think> is emitted at most once.
C3_OpenMarkerOnce ==
  /\ Cardinality(Sites("y_open")) <= 1
  /\ \A i \in Sites("y_open") :
       /\ out[i].text.frame = "chunk"
       /\ out[i].text.content = OpenMarker
       /\ FirstReasoning(out[i].ev)
       /\ thinking_state >= 0
       /\ i > 1 => out[i - 1].ev < out[i].ev
       /\ IF i < Len(out)
          THEN /\ out[i + 1].site = "y_content"
               /\ out[i + 1].ev = out[i].ev
               /\ out[i + 1].text.content = lines[out[i].ev].ev.reasoning
          ELSE pc \in {"y_open", "closed"}
  /\ \A k \in 1..Len(lines) :
       FirstReasoning(k) => \E i \in Sites("y_open") : out[i].ev = k
  /\ pc = "y_open" => thinking_state = 0
  /\ Sites("y_open") = {} => thinking_state = -1

C3_Witness ==
  /\ Len(out) >= 3
  /\ out[Len(out) - 1].site = "y_open"
  /\ out[Len(out)].site = "y_content"
  /\ out[1].site = "y_content"

\* ---- C4 ----
\* Line k carries no reasoning fragment but a non-empty answer fragment.
AnswerOnly(k) ==
  /\ ParsedOk(k)
  /\ ~NonEmpty(lines[k].ev.reasoning)
  /\ NonEmpty(lines[k].ev.content)

\* C4: the first event that arrives in REASONING with no reasoning fragment
\* and a non-empty answer fragment moves the phase to ANSWERED and emits one
\* </think>\n\n chunk immediately before its answer chunk; the closing marker
\* is emitted at most once and never before the opening marker.
C4_CloseMarkerOnce ==
  /\ Cardinality(Sites("y_close")) <= 1
  /\ \A i \in Sites("y_close") :
       /\ out[i].text.frame = "chunk"
       /\ out[i].text.content = CloseMarker
       /\ AnswerOnly(out[i].ev)
       /\ thinking_state = 1
       /\ \E j \in Sites("y_open") :
            /\ j < i
            /\ out[j].ev < out[i].ev
            /\ \A k \in (out[j].ev + 1)..(out[i].ev - 1) : ~AnswerOnly(k)
       /\ out[i - 1].ev < out[i].ev
       /\ IF i < Len(out)
          THEN /\ out[i + 1].site = "y_content"
               /\ out[i + 1].ev = out[i].ev
               /\ out[i + 1].text.content = lines[out[i].ev].ev.content
          ELSE pc \in {"y_close", "closed"}
  /\ \A k \in 1..Len(lines) :
       (AnswerOnly(k) /\ \E j \in Sites("y_open") : out[j].ev < k)
         => \E i \in Sites("y_close") : out[i].ev <= k
  /\ Sites("y_close") = {} => thinking_state <= 0

C4_Witness ==
  /\ Len(out) >= 4
  /\ out[Len(out) - 1].site = "y_close"
  /\ out[Len(out)].site = "y_content"
  /\ ~upstream.scripted

\* ---- C5 ----
\* C5: the data: [DONE] line is emitted for an event whose first choice has a
\* non-empty finish_reason, after that event's own chunks, as the last
\* element of the output, at most once, and no line after that event is read.
C5_DoneIsLast ==
  /\ Cardinality(Sites("y_done")) <= 1
  /\ \A i \in Sites("y_done") :
       /\ out[i].text = DoneLine
       /\ i = Len(out)
       /\ ParsedOk(out[i].ev)
       /\ NonEmpty(lines[out[i].ev].ev.finish)
       /\ out[i].ev = Len(lines)
       /\ pc \in {"y_done", "returned", "closed"}
  /\ \A k \in 1..Len(lines) :
       (ParsedOk(k) /\ NonEmpty(lines[k].ev.finish))
         => /\ k = Len(lines)
            /\ pc # "await_line"
            /\ pc = "returned" => (Len(out) > 0 /\ out[Len(out)].site = "y_done")

C5_Witness ==
  /\ pc = "returned"
  /\ Len(out) >= 3
  /\ out[Len(out)].site = "y_done"
  /\ out[Len(out) - 1].ev = Len(lines)
  /\ out[Len(out) - 2].ev = Len(lines)
  /\ ~upstream.scripted
\* ---- C6 ----
\* No event read so far carries a non-empty finish_reason.
NoFinishRead ==
  \A k \in 1..Len(lines) : ~(ParsedOk(k) /\ NonEmpty(lines[k].ev.finish))

\* C6: when the body ends without any finish_reason, the sequence ends
\* normally after the last content chunk and holds no data: [DONE] line.
C6_NoSyntheticDone ==
  NoFinishRead =>
    /\ Sites("y_done") = {}
    /\ \A i \in 1..Len(out) : out[i].text # DoneLine
    /\ pc = "returned" =>
         /\ exc = "none"
         /\ consumer = "ended"
         /\ Len(out) > 0 => out[Len(out)].site = "y_content"

C6_Witness ==
  /\ NoFinishRead
  /\ pc = "returned"
  /\ Len(lines) >= 2
  /\ Len(out) >= 2

\* ---- C7 ----
\* No event read so far carries a non-empty reasoning fragment.
NoReasoningRead ==
  \A k \in 1..Len(lines) : ~NonEmpty(lines[k].ev.reasoning)

\* The non-empty answer fragments of the first n lines, in order.
RECURSIVE AnswerTexts(_)
AnswerTexts(n) ==
  IF n = 0 THEN <<>>
  ELSE IF ParsedOk(n) /\ NonEmpty(lines[n].ev.content)
       THEN Append(AnswerTexts(n - 1), lines[n].ev.content)
       ELSE AnswerTexts(n - 1)

IsContentChunk(e) == e.site = "y_content"

\* C7: a stream without reasoning fragments emits neither <think> nor
\* </think>\n\n: its output is the answer fragments in order, followed by
\* data: [DONE] when a finish_reason arrives.
C7_NoMarkersWithoutReasoning ==
  NoReasoningRead =>
    /\ Sites("y_open") = {}
    /\ Sites("y_close") = {}
    /\ \A i \in 1..Len(out) : out[i].text.content \notin {OpenMarker, CloseMarker}
    /\ LET cs == SelectSeq(out, IsContentChunk)
       IN  [k \in 1..Len(cs) |-> cs[k].text.content] = AnswerTexts(Len(lines))
    /\ \A i \in Sites("y_done") : i = Len(out)
    /\ (Len(lines) > 0 /\ ParsedOk(Len(lines)) /\ NonEmpty(lines[Len(lines)].ev.finish)
          /\ pc = "returned")
         => (Len(out) > 0 /\ out[Len(out)].text = DoneLine)
    /\ thinking_state = -1

C7_Witness ==
  /\ NoReasoningRead
  /\ pc = "returned"
  /\ Len(out) = 3
  /\ out[1].site = "y_content"
  /\ out[2].site = "y_content"
  /\ out[3].site = "y_done"

\* ---- C8 ----
\* C8: when the upstream answers the streaming request with an error status,
\* the generator fails before any line is read and before any chunk is
\* emitted: the failure is the first thing the consumer gets.
C8_StatusErrorFailsFast ==
  upstream.status = "error" =>
    /\ lines = <<>>
    /\ out = <<>>
    /\ pc \in {"none", "created", "raised", "closed"}
    /\ pc = "raised" => (exc = "HTTPStatusError" /\ consumer = "ended")

C8_Witness ==
  /\ upstream.status = "error"
  /\ pc = "raised"
  /\ exc = "HTTPStatusError"

\* ---- C9 ----
\* Line k starts with "data: " and its payload is no JSON.
BadPayload(k) == lines[k].data /\ lines[k].json # "ok"

\* The phase the emitted markers stand for.
PhaseOfOutput ==
  IF Sites("y_close") # {} THEN 1 ELSE IF Sites("y_open") # {} THEN 0 ELSE -1

\* A line that failed to parse is the last line read, the generator has
\* ended with the parse failure, and no chunk comes from that line; a
\* network failure has ended it too; the phase is the one the chunks show.
FailureState ==
  /\ \A k \in 1..Len(lines) :
       BadPayload(k) =>
         /\ k = Len(lines)
         /\ pc = "raised"
         /\ exc = "JSONDecodeError"
         /\ consumer = "ended"
         /\ \A i \in 1..Len(out) : out[i].ev # k
  /\ exc = "ReadError" => (pc = "raised" /\ consumer = "ended")
  /\ pc # "none" => thinking_state = PhaseOfOutput

\* The step that fails, and every step after a failure, leaves the chunks
\* and the phase as they were.
FailureStep ==
  (pc' = "raised" \/ pc = "raised") =>
    /\ out' = out
    /\ thinking_state' = thinking_state
    /\ pc = "raised" => pc' = "raised"

\* C9: a data line that is no JSON, or a network failure in the middle of the
\* stream, reaches the consumer as a failure: the failing line gives no
\* chunk and no phase change, nothing is emitted after the failure, and the
\* chunks emitted before it stay as they are.
C9_FailurePropagates == []FailureState /\ [][FailureStep]_vars

C9_Witness ==
  /\ pc = "raised"
  /\ exc = "JSONDecodeError"
  /\ Len(out) >= 2
  /\ thinking_state = 0

\* ---- C10 ----
\* No step is possible any more.
Final == ~ENABLED Next

\* C10: the connection and the client are released however the sequence
\* stops (end of the body, [DONE], a failure, the consumer giving up): they
\* are open only while the generator is alive, and in no final state has the
\* consumer gone with the connection or the client still open.
C10_ConnectionReleased ==
  /\ (clientOpen \/ respOpen) => pc \in YieldSites \cup {"await_line"}
  /\ pc \in {"returned", "raised", "closed"} => (~clientOpen /\ ~respOpen)
  /\ Final => (~clientOpen /\ ~respOpen)
  /\ (consumer = "gone" /\ (clientOpen \/ respOpen)) => ENABLED Finalize

C10_Witness ==
  /\ consumer = "gone"
  /\ pc = "closed"
  /\ Len(out) >= 2
  /\ ~clientOpen
  /\ ~respOpen
  /\ Final
\* ---- C11 ----
\* s without its first token when that token is "reasoning/".
StripPrefix(s) ==
  IF Len(s) > 0 /\ s[1] = "reasoning/" THEN Tail(s) ELSE s

\* C11: the model id is rewritten in two steps: the part after the first "."
\* is kept, then "reasoning/" is removed only where it starts that part; a
\* "reasoning/" anywhere else stays in place.
C11_ReasoningPrefixOnly ==
  (ret # "none" /\ body.model.kind = "str") =>
    /\ modified_body.model.kind = "str"
    /\ modified_body.model.val = StripPrefix(SplitTail(body.model.val))

\* ---- C12 ----
\* The normalised request agrees with the caller's mapping on every field
\* but the model id, and asks for the reasoning.
PassThrough ==
  ret # "none" =>
    /\ modified_body.stream = body.stream
    /\ modified_body.messages = body.messages
    /\ modified_body.model.kind = body.model.kind
    /\ modified_body.include_reasoning = "true"

\* C12: the call leaves the caller's mapping as it was, its model field
\* included, and the request it builds equals the input on every field other
\* than the model id, with include_reasoning set to true whether or not the
\* input has a model field.
C12_CallerMappingUntouched == []PassThrough /\ [][body' = body]_vars

C12_Witness ==
  /\ ret # "none"
  /\ body.model.kind = "absent"
  /\ body.include_reasoning = "false"
  /\ modified_body.include_reasoning = "true"

\* ---- C13 ----
\* The content the reshape gives a message with reasoning r and content c.
Wrapped(r, c) == "<think>" \o (IF r = Null THEN "None" ELSE r) \o "</think>\n" \o c

\* The message of a choice carries a reasoning field and a content.
CarriesBoth(c) == c.hasMessage /\ c.reasoning # Absent /\ c.content # Absent

\* C13: when the non-streaming request returns, the document has the choices
\* of the upstream document, in number and order; a choice whose message
\* carries a reasoning field R and a content C differs from the upstream's
\* only in its content, which is exactly <think>R</think>\nC; every other
\* choice, and the rest of the document, is the upstream's.
C13_NonStreamingReshape ==
  npc = "returned" =>
    /\ response.kind = "doc"
    /\ doc.hasChoices = response.doc.hasChoices
    /\ Len(doc.choices) = Len(response.doc.choices)
    /\ \A i \in 1..Len(response.doc.choices) :
         IF CarriesBoth(response.doc.choices[i])
         THEN doc.choices[i] =
                [response.doc.choices[i] EXCEPT
                   !.content = Wrapped(response.doc.choices[i].reasoning,
                                       response.doc.choices[i].content)]
         ELSE doc.choices[i] = response.doc.choices[i]

C13_Witness ==
  /\ npc = "returned"
  /\ Len(response.doc.choices) = 2
  /\ response.doc.choices[1].reasoning = "R"
  /\ response.doc.choices[1].content = "C"
  /\ doc.choices[1].content = "<think>R</think>\nC"
  /\ response.doc.choices[2].hasMessage
  /\ response.doc.choices[2].reasoning = Absent
  /\ doc.choices[2] = response.doc.choices[2]

\* ---- C14 ----
\* What went wrong with the listing the upstream answered, "none" if nothing:
\* the fetch, the status check, the parsing of the body, or the processing
\* of the entries.
ListingError ==
  CASE models_response.kind = "connection_error" -> "ConnectionError"
    [] models_response.kind = "status_error"     -> "HTTPError"
    [] models_response.kind = "invalid_json"     -> "JSONDecodeError"
    [] models_response.kind = "not_a_dict"       -> "AttributeError"
    [] OTHER ->
         IF \E i \in 1..Len(models_response.data) :
              \/ models_response.data[i].kind # "dict"
              \/ valves.FREE_ONLY /\ models_response.data[i].id.kind = "null"
         THEN "AttributeError"
         ELSE "none"

\* The upstream entries FREE_ONLY retains, in upstream order.
RetainedEntries ==
  SelectSeq(models_response.data,
            LAMBDA e : valves.FREE_ONLY => ContainsFree(e.id))

\* C14: the model listing never ends with an exception; once it has returned,
\* after a failure it is exactly one entry with id "openrouter" and the error
\* text as name, and after a success it has one {id, name} pair for every
\* retained upstream entry, in upstream order.
C14_ListingNeverFails ==
  /\ lpc # "raised"
  /\ lpc = "returned" =>
       IF ListingError # "none"
       THEN /\ Len(listing) = 1
            /\ listing[1].id = [kind |-> "str", val |-> <<"openrouter">>]
            /\ listing[1].name = ListingError
       ELSE /\ Len(listing) = Len(RetainedEntries)
            /\ \A i \in 1..Len(listing) :
                 /\ DOMAIN listing[i] = {"id", "name"}
                 /\ listing[i].id =
                      IF RetainedEntries[i].id.kind = "absent"
                      THEN [kind |-> "str", val |-> <<"unknown">>]
                      ELSE RetainedEntries[i].id
                 /\ listing[i].name =
                      IF RetainedEntries[i].name = Absent
                      THEN "Unknown Model"
                      ELSE RetainedEntries[i].name

\* A failure while processing the entries (a null id under FREE_ONLY) has
\* become the fallback entry.
C14_Witness ==
  /\ lpc = "returned"
  /\ valves.FREE_ONLY
  /\ models_response.kind = "doc"
  /\ Len(models_response.data) = 2
  /\ models_response.data[2].id.kind = "null"
  /\ listing = Fallback("AttributeError")

\* ---- C15 ----
\* The phase is one of NOT_STARTED (-1), REASONING (0), ANSWERED (1), and is
\* NOT_STARTED as long as no line was read.
PhaseState ==
  /\ thinking_state \in {-1, 0, 1}
  /\ lines = <<>> => thinking_state = -1

\* A step keeps the phase or moves it one place forward, and moves it only
\* while it processes a line parsed into an event.
PhaseStep ==
  /\ thinking_state' \in {thinking_state, thinking_state + 1}
  /\ thinking_state = 1 => thinking_state' = 1
  /\ thinking_state' # thinking_state =>
       /\ Len(lines') = Len(lines) + 1
       /\ lines'[Len(lines')].data
       /\ lines'[Len(lines')].json = "ok"
       /\ lines'[Len(lines')].ev.choices # "empty"

\* C15: the phase starts at NOT_STARTED and only moves forward along
\* NOT_STARTED -> REASONING -> ANSWERED; it never moves backward, ANSWERED is
\* never left, and it changes only while a parsed event is processed.
C15_PhaseOnlyForward == []PhaseState /\ [][PhaseStep]_vars

\* The phase is ANSWERED after an event that carried a reasoning fragment again.
C15_Witness ==
  /\ thinking_state = 1
  /\ Len(lines) > 0
  /\ ParsedOk(Len(lines))
  /\ NonEmpty(lines[Len(lines)].ev.reasoning)
  /\ Sites("y_close") # {}
  /\ \E i \in Sites("y_close") : out[i].ev < Len(lines)

\* ---- C16 ----
\* The value chosen for event k: the reasoning fragment when it is non-empty,
\* otherwise the answer fragment, "" when that is absent.
Chosen(k) ==
  IF NonEmpty(lines[k].ev.reasoning) THEN lines[k].ev.reasoning
  ELSE IF lines[k].ev.content = Absent THEN "" ELSE lines[k].ev.content

\* Positions of the content chunks of event k.
ContentChunks(k) == {i \in Sites("y_content") : out[i].ev = k}

\* The generator stands at a marker of event k, its last chunk so far: the
\* content chunk of k is the next one the consumer would pull.
PendingAtMarker(k) ==
  /\ k = Len(lines)
  /\ Len(out) > 0
  /\ out[Len(out)].ev = k
  /\ out[Len(out)].site \in {"y_open", "y_close"}

\* C16: for every parsed event the content chunk carries the reasoning
\* fragment when that is non-empty and otherwise the answer fragment; there
\* is exactly one content chunk for the event when the chosen value is
\* non-empty (it may still be pending behind the event's marker) and none
\* when it is empty, whatever the phase.
C16_ContentChunkChoice ==
  \A k \in 1..Len(lines) :
    ParsedOk(k) =>
      /\ Cardinality(ContentChunks(k)) <= 1
      /\ \A i \in ContentChunks(k) :
           /\ out[i].text.frame = "chunk"
           /\ out[i].text.content = Chosen(k)
      /\ Chosen(k) = "" => ContentChunks(k) = {}
      /\ Chosen(k) # "" => (ContentChunks(k) # {} \/ PendingAtMarker(k))

\* An event with both fragments gave its reasoning as its one content chunk,
\* in the phase ANSWERED.
C16_Witness ==
  \E k \in 1..Len(lines) :
    /\ ParsedOk(k)
    /\ NonEmpty(lines[k].ev.reasoning)
    /\ NonEmpty(lines[k].ev.content)
    /\ \E i \in ContentChunks(k) :
         /\ out[i].text.content = lines[k].ev.reasoning
         /\ \E j \in Sites("y_close") : j < i

\* ---- C17 ----
\* The step reads a line that does not begin with "data: ".
ReadsOtherLine ==
  /\ Len(lines') = Len(lines) + 1
  /\ ~lines'[Len(lines')].data

\* The step leaves the generator where it was, waiting for the next line,
\* with the same phase, the same chunks, no failure and the connection as
\* it was.
SkipStep ==
  /\ pc = "await_line"
  /\ pc' = "await_line"
  /\ consumer' = consumer
  /\ consumer' = "awaiting"
  /\ out' = out
  /\ thinking_state' = thinking_state
  /\ data' = data
  /\ exc' = exc
  /\ clientOpen' = clientOpen
  /\ respOpen' = respOpen

\* C17: a line that does not begin with "data: " is skipped: reading it
\* emits no chunk, keeps the phase, does not end the sequence, and leaves the
\* generator in the state it had before the line, so the lines after it are
\* processed as if it had not been there.
C17_OtherLinesSkipped == [][ReadsOtherLine => SkipStep]_vars

\* A line without the prefix was read and gave no chunk; the line after it
\* was processed and gave one.
C17_Witness ==
  \E k \in 1..(Len(lines) - 1) :
    /\ ~lines[k].data
    /\ \A i \in 1..Len(out) : out[i].ev # k
    /\ ParsedOk(k + 1)
    /\ \E i \in 1..Len(out) : out[i].ev = k + 1

\* ---- C18 ----
\* Every chunk owed for line k has been delivered: its content chunk if it
\* has a non-empty fragment, and it did not end the stream.
NothingOwed(k) ==
  ParsedOk(k) =>
    /\ Chosen(k) # "" => ContentChunks(k) # {}
    /\ ~NonEmpty(lines[k].ev.finish)

\* The chunks delivered never exceed the chunks requested; a suspended
\* generator has delivered every chunk requested, the last of them from the
\* last line read; nothing is read before the first request.
PullState ==
  /\ Len(out) <= pulls
  /\ pulls = 0 => lines = <<>>
  /\ pc \in YieldSites =>
       /\ Len(out) = pulls
       /\ out[Len(out)].ev = Len(lines)
  /\ (pc = "await_line" /\ consumer = "awaiting") => Len(out) = pulls - 1

\* A step reads a line only while a request of the consumer is unanswered
\* and nothing is owed for the lines read before.
PullStep ==
  Len(lines') > Len(lines) =>
    /\ Len(lines') = Len(lines) + 1
    /\ consumer = "awaiting"
    /\ pc = "await_line"
    /\ Len(out) = pulls - 1
    /\ \A k \in 1..Len(lines) : NothingOwed(k)

\* C18: the generator is pull-driven and never reads ahead: it reads the next
\* line only when the consumer has requested a chunk and every chunk owed for
\* the lines already read has been delivered, so the lines read are at most
\* those up to the line that produced the chunk last requested.
C18_NeverReadsAhead == []PullState /\ [][PullStep]_vars

\* The consumer holds the chunk of the second line and has not asked again:
\* no third line was read.
C18_Witness ==
  /\ pc = "y_content"
  /\ consumer = "idle"
  /\ Len(lines) = 2
  /\ pulls = Len(out)
  /\ Len(out) >= 2
  /\ out[Len(out)].ev = 2

\* ---- C19 ----
\* Positions of the content chunks that carry the reasoning fragment of
\* their event.
ReasoningChunks ==
  {i \in Sites("y_content") :
     /\ NonEmpty(lines[out[i].ev].ev.reasoning)
     /\ out[i].text.content = lines[out[i].ev].ev.reasoning}

\* C19: every chunk that carries a reasoning fragment is emitted inside the
\* reasoning block, after the <think> chunk and before the </think>\n\n chunk
\* if one is emitted; no reasoning fragment is emitted as plain content once
\* the closing marker has been emitted.
C19_ReasoningInsideBlock ==
  \A i \in ReasoningChunks :
    /\ \E j \in Sites("y_open") : j < i
    /\ \A j \in Sites("y_close") : i < j

\* C19 as the generator behaves: every chunk that carries a reasoning
\* fragment is emitted after the <think> chunk; it is emitted before the
\* </think>\n\n chunk when its event came before the event that closed the
\* block, and after it, as plain content, when its event came later.
C19_ReasoningAfterOpen ==
  \A i \in ReasoningChunks :
    /\ \E j \in Sites("y_open") : j < i
    /\ \A j \in Sites("y_close") :
         IF out[i].ev < out[j].ev
         THEN i < j
         ELSE i > j /\ out[i].ev > out[j].ev

\* A reasoning fragment was emitted after the closing marker.
C19_Witness ==
  \E i \in ReasoningChunks : \E j \in Sites("y_close") : j < i

\* ---- C20 ----
\* C20: whenever the <think> chunk has been emitted and the sequence ends
\* with data: [DONE], the </think>\n\n chunk has been emitted before [DONE]:
\* a stream that ends through finish_reason never leaves the reasoning block
\* open.
C20_BlockClosedBeforeDone ==
  \A d \in Sites("y_done") :
    Sites("y_open") # {} => \E j \in Sites("y_close") : j < d

====
